---- MODULE Spec2Model ----
(***************************************************************************)
(* Model of the arduino_mouse host client: the packet codec of             *)
(* protocol.py and the ArduinoMouse session of client.py, together with    *)
(* the serial transport and the actuator the session talks to.             *)
(***************************************************************************)
EXTENDS Integers, Sequences, FiniteSets, TLC

(* ------------------------------------------------------------------ *)
(* protocol.py: constants                                               *)
(* ------------------------------------------------------------------ *)
START_BYTE == 170
CMD_MOVE == 1
PACKET_SIZE == 10

ACK_OK == 0
NAK_CHECKSUM == 1
NAK_INVALID == 2
NAK_INTERRUPTED == 3

(* client.py: class constants *)
MAX_RETRIES == 1

(* ------------------------------------------------------------------ *)
(* Bounds of the model                                                  *)
(* ------------------------------------------------------------------ *)
\* frames the actuator may hold unanswered, plus reply bytes buffered
MaxInFlight == 3
\* close()/__exit__/__del__ invocations explored on one session
MaxCloseCalls == 3

(* ------------------------------------------------------------------ *)
(* Byte arithmetic used by struct.pack and the checksum loop            *)
(* ------------------------------------------------------------------ *)
RECURSIVE XorBits(_, _, _)
XorBits(a, b, n) ==
    IF n = 0 THEN 0
    ELSE (((a % 2) + (b % 2)) % 2) + 2 * XorBits(a \div 2, b \div 2, n - 1)

\* checksum ^= byte, on 8-bit values
Xor8(a, b) == XorBits(a, b, 8)

\* faulty variant of Pack16LE: the high byte is stored first
Pack16LE_big_endian(v) ==
    LET u == v % 65536
    IN  <<u \div 256, u % 256>>

\* struct '<h' / '<H': a 16-bit value as two bytes, low byte first; a
\* negative h is stored in two's complement
Pack16LE(v) ==
    LET u == v % 65536
    IN  <<u % 256, u \div 256>>

RECURSIVE XorFold(_, _)
XorFold(packet, checksum) ==
    IF packet = <<>> THEN checksum
    ELSE XorFold(Tail(packet), Xor8(checksum, Head(packet)))

(* ------------------------------------------------------------------ *)
(* curves.py                                                            *)
(* ------------------------------------------------------------------ *)
LINEAR == 0
EASE_IN == 1
EASE_OUT == 2
EASE_IN_OUT == 3
Curve == {LINEAR, EASE_IN, EASE_OUT, EASE_IN_OUT}

\* faulty variant of encode_move_command: a duration of zero is accepted
encode_move_command_zero_duration(dx, dy, duration_ms, curve) ==
    IF ~(-32768 <= dx /\ dx <= 32767)
      THEN [err |-> "dx must be in range", packet |-> <<>>]
    ELSE IF ~(-32768 <= dy /\ dy <= 32767)
      THEN [err |-> "dy must be in range", packet |-> <<>>]
    ELSE IF ~(0 <= duration_ms /\ duration_ms <= 65535)
      THEN [err |-> "duration_ms must be in range", packet |-> <<>>]
    ELSE IF ~(0 <= curve /\ curve <= 3)
      THEN [err |-> "curve must be in range", packet |-> <<>>]
    ELSE
      LET packet == <<START_BYTE, CMD_MOVE>> \o Pack16LE(dx) \o Pack16LE(dy)
                      \o Pack16LE(duration_ms) \o <<curve>>
      IN  [err |-> "", packet |-> packet \o <<XorFold(packet, 0)>>]

\* faulty variant of encode_move_command: dx = 32768 passes the range check
encode_move_command_dx_off_by_one(dx, dy, duration_ms, curve) ==
    IF ~(-32768 <= dx /\ dx <= 32768)
      THEN [err |-> "dx must be in range", packet |-> <<>>]
    ELSE IF ~(-32768 <= dy /\ dy <= 32767)
      THEN [err |-> "dy must be in range", packet |-> <<>>]
    ELSE IF ~(1 <= duration_ms /\ duration_ms <= 65535)
      THEN [err |-> "duration_ms must be in range", packet |-> <<>>]
    ELSE IF ~(0 <= curve /\ curve <= 3)
      THEN [err |-> "curve must be in range", packet |-> <<>>]
    ELSE
      LET packet == <<START_BYTE, CMD_MOVE>> \o Pack16LE(dx) \o Pack16LE(dy)
                      \o Pack16LE(duration_ms) \o <<curve>>
      IN  [err |-> "", packet |-> packet \o <<XorFold(packet, 0)>>]

(* ------------------------------------------------------------------ *)
(* protocol.py: encode_move_command                                     *)
(* The result is [err |-> reason, packet |-> bytes]; err = "" when the  *)
(* packet is returned, otherwise the ValueError that is raised.         *)
(* ------------------------------------------------------------------ *)
encode_move_command(dx, dy, duration_ms, curve) ==
    IF ~(-32768 <= dx /\ dx <= 32767)
      THEN [err |-> "dx must be in range", packet |-> <<>>]
    ELSE IF ~(-32768 <= dy /\ dy <= 32767)
      THEN [err |-> "dy must be in range", packet |-> <<>>]
    ELSE IF ~(1 <= duration_ms /\ duration_ms <= 65535)
      THEN [err |-> "duration_ms must be in range", packet |-> <<>>]
    ELSE IF ~(0 <= curve /\ curve <= 3)
      THEN [err |-> "curve must be in range", packet |-> <<>>]
    ELSE
      LET packet == <<START_BYTE, CMD_MOVE>> \o Pack16LE(dx) \o Pack16LE(dy)
                      \o Pack16LE(duration_ms) \o <<curve>>
          checksum == XorFold(packet, 0)
      IN  [err |-> "", packet |-> packet \o <<checksum>>]

\* faulty variant of decode_response: the first byte of a longer response
\* is decoded
decode_response_any_length(response) ==
    IF Len(response) = 0
      THEN [err |-> "Expected 1-byte response", success |-> FALSE,
            code |-> Len(response)]
    ELSE [err |-> "", success |-> (response[1] = ACK_OK),
          code |-> response[1]]

(* ------------------------------------------------------------------ *)
(* protocol.py: decode_response                                         *)
(* response is the sequence of bytes read.                              *)
(* ------------------------------------------------------------------ *)
decode_response(response) ==
    IF Len(response) # 1
      THEN [err |-> "Expected 1-byte response", success |-> FALSE,
            code |-> Len(response)]
    ELSE
      LET code == response[1]
      IN  [err |-> "", success |-> (code = ACK_OK), code |-> code]

(* protocol.py: response_code_to_string                                *)
(* A message is [text, detail]: detail holds the values formatted into  *)
(* the text (the code, for an unknown response code).                   *)
response_code_to_string(code) ==
    IF code = ACK_OK
      THEN [text |-> "Movement completed successfully", detail |-> <<>>]
    ELSE IF code = NAK_CHECKSUM
      THEN [text |-> "Checksum error", detail |-> <<>>]
    ELSE IF code = NAK_INVALID
      THEN [text |-> "Invalid command", detail |-> <<>>]
    ELSE IF code = NAK_INTERRUPTED
      THEN [text |-> "Movement interrupted by new command", detail |-> <<>>]
    ELSE [text |-> "Unknown response code", detail |-> <<code>>]

(* ------------------------------------------------------------------ *)
(* Inputs explored                                                      *)
(* ------------------------------------------------------------------ *)
\* threads that may call the session's methods
Callers == {"t1", "t2"}
\* the thread of a program that is single-threaded
SingleCaller == {"t1"}

\* move(dx, dy, duration_ms, curve) arguments: in range, at the edges of
\* the ranges, and one step outside each range
MoveArgs ==
    { <<200, 0, 2, LINEAR>>, <<-32768, 32767, 1, EASE_IN_OUT>>,
      <<32768, 0, 1, LINEAR>>, <<0, -32769, 1, LINEAR>>,
      <<0, 0, 0, EASE_IN>>, <<0, 0, 65536, LINEAR>>, <<0, 0, 1, 4>> }

\* encode_move_command on each of them, computed once
Encoded ==
    [a \in MoveArgs |-> encode_move_command(a[1], a[2], a[3], a[4])]

\* response bytes the actuator may send: the four defined codes and an
\* undefined one
ResponseBytes == {ACK_OK, NAK_CHECKSUM, NAK_INVALID, NAK_INTERRUPTED, 85}

\* timeout_buffer_ms values passed to the constructor, in milliseconds
TimeoutBuffers == {0, 1}

(* ------------------------------------------------------------------ *)
(* State                                                                *)
(* ------------------------------------------------------------------ *)
VARIABLES
    _serial,            \* self._serial: "None" or "Serial" (the port object)
    is_open,            \* the port object's is_open: the transport is held
    timeout_buffer_ms,  \* self.timeout_buffer_ms
    serial_timeout,     \* the port object's read timeout, in milliseconds
    linkUp,             \* the serial link to the actuator still works
    inBuf,              \* the port's input buffer: reply bytes not yet read
    pending,            \* frames the actuator received and has not answered
    pc,                 \* per caller: position inside move()
    args,               \* per caller: arguments of the current/last move()
    command,            \* per caller: local 'command'
    timeout_ms,         \* per caller: local 'timeout_seconds', in ms
    attempt,            \* per caller: loop variable 'attempt'
    deadline,           \* per caller: timeout the blocked read started with
    waited,             \* per caller: time the blocked read has waited, ms
    outcome,            \* per caller: how the last move() ended
    ioLog,              \* per caller: transport operations of that move()
    prev,               \* per caller: how the session's previous move() ended
    closedAtCall,       \* per caller: close() had been invoked before the call
    sessionLast,        \* how the most recent finished move() ended
    constructed,        \* __init__ returned (the caller holds the session)
    usage,              \* "with": used as a context manager; "plain"
    scope,              \* "in" the with-block, "left" it, or "none"
    deleted,            \* __del__ has run
    closeCalls,         \* close() invocations so far (all entry points)
    portCloses,         \* invocations of the port object's close()
    closeErr,           \* a close() invocation raised
    codec               \* the direct call of a protocol.py function, if any

vars == <<_serial, is_open, timeout_buffer_ms, serial_timeout, linkUp, inBuf,
          pending, pc, args, command, timeout_ms, attempt, deadline, waited,
          outcome, ioLog, prev, closedAtCall, sessionLast, constructed, usage, scope,
          deleted, closeCalls, portCloses, closeErr, codec>>

sessionVars == <<_serial, is_open, timeout_buffer_ms, serial_timeout>>
linkVars == <<linkUp, inBuf, pending>>
callVars == <<pc, args, command, timeout_ms, attempt, deadline, waited,
              outcome, ioLog, prev, closedAtCall, sessionLast>>
lifeVars == <<constructed, usage, scope, deleted>>
closeVars == <<closeCalls, portCloses, closeErr>>

(* ------------------------------------------------------------------ *)
(* Results of a call                                                    *)
(* ------------------------------------------------------------------ *)
\* no call has ended yet / the call is in progress
NoOutcome == [kind |-> "none", text |-> "", detail |-> <<>>]
\* move() returned None
Returned == [kind |-> "ok", text |-> "", detail |-> <<>>]
\* move() raised an exception of class kind
Raised(kind, text, detail) == [kind |-> kind, text |-> text, detail |-> detail]

(* ------------------------------------------------------------------ *)
(* client.py: __init__ / _connect                                       *)
(* openOk: serial.Serial(...) opened the port; otherwise it raised      *)
(* SerialException and _serial keeps the None __init__ assigned.        *)
(* ------------------------------------------------------------------ *)
_connect(openOk) ==
    IF openOk THEN [_serial |-> "Serial", is_open |-> TRUE, raised |-> FALSE]
    ELSE [_serial |-> "None", is_open |-> FALSE, raised |-> TRUE]

SessionInit ==
    \E openOk \in BOOLEAN, buf \in TimeoutBuffers, u \in {"with", "plain"} :
      LET r == _connect(openOk)
      IN  /\ _serial = r._serial
          /\ is_open = r.is_open
          /\ constructed = ~r.raised
          /\ timeout_buffer_ms = buf
          /\ serial_timeout = 1000
          /\ usage = u
          /\ scope = IF ~r.raised /\ u = "with" THEN "in" ELSE "none"
          /\ deleted = FALSE
          /\ linkUp = TRUE
          /\ inBuf = <<>>
          /\ pending = <<>>
          /\ pc = [c \in Callers |-> "idle"]
          /\ args = [c \in Callers |-> <<0, 0, 1, LINEAR>>]
          /\ command = [c \in Callers |-> <<>>]
          /\ timeout_ms = [c \in Callers |-> 0]
          /\ attempt = [c \in Callers |-> 0]
          /\ deadline = [c \in Callers |-> 0]
          /\ waited = [c \in Callers |-> 0]
          /\ outcome = [c \in Callers |-> NoOutcome]
          /\ ioLog = [c \in Callers |-> <<>>]
          /\ prev = [c \in Callers |-> "none"]
          /\ closedAtCall = [c \in Callers |-> FALSE]
          /\ sessionLast = "none"
          /\ closeCalls = 0
          /\ portCloses = 0
          /\ closeErr = FALSE

\* no protocol.py function is called directly
NoCodecCall ==
    [fn |-> "none", input |-> <<>>, done |-> FALSE, err |-> "",
     packet |-> <<>>, success |-> FALSE, code |-> 0, text |-> "",
     detail |-> <<>>]

Init == SessionInit /\ codec = NoCodecCall

(* ------------------------------------------------------------------ *)
(* client.py: move(), lines 100-113: the checks made before the loop    *)
(* ------------------------------------------------------------------ *)
\* _ensure_connected: the exception raised, or NoOutcome
_ensure_connected(s, open) ==
    IF s = "None" \/ ~open
      THEN Raised("ConnectionError", "Not connected to Arduino", <<>>)
    ELSE NoOutcome

\* faulty variant of lines 100-113: the arguments are validated before
\* the connection is checked
move_prepare_validate_first(s, open, buf, dx, dy, duration_ms, curve) ==
    IF curve \notin Curve
      THEN [exc |-> Raised("ValueError", "Invalid curve value", <<curve>>),
            command |-> <<>>, timeout |-> 0]
    ELSE IF Encoded[<<dx, dy, duration_ms, curve>>].err # ""
      THEN [exc |-> Raised("ValueError",
                           Encoded[<<dx, dy, duration_ms, curve>>].err, <<>>),
            command |-> <<>>, timeout |-> 0]
    ELSE IF _ensure_connected(s, open) # NoOutcome
      THEN [exc |-> _ensure_connected(s, open), command |-> <<>>, timeout |-> 0]
    ELSE [exc |-> NoOutcome,
          command |-> Encoded[<<dx, dy, duration_ms, curve>>].packet,
          timeout |-> duration_ms + buf]

\* faulty variant of lines 100-113: the timeout is the movement's
\* duration, without the buffer
move_prepare_no_buffer(s, open, buf, dx, dy, duration_ms, curve) ==
    IF _ensure_connected(s, open) # NoOutcome
      THEN [exc |-> _ensure_connected(s, open), command |-> <<>>, timeout |-> 0]
    ELSE IF curve \notin Curve
      THEN [exc |-> Raised("ValueError", "Invalid curve value", <<curve>>),
            command |-> <<>>, timeout |-> 0]
    ELSE IF Encoded[<<dx, dy, duration_ms, curve>>].err # ""
      THEN [exc |-> Raised("ValueError",
                           Encoded[<<dx, dy, duration_ms, curve>>].err, <<>>),
            command |-> <<>>, timeout |-> 0]
    ELSE [exc |-> NoOutcome,
          command |-> Encoded[<<dx, dy, duration_ms, curve>>].packet,
          timeout |-> duration_ms]

\* lines 100-113: [exc, command, timeout]; exc is NoOutcome when the
\* loop is entered with the encoded command and the computed timeout
move_prepare(s, open, buf, dx, dy, duration_ms, curve) ==
    IF _ensure_connected(s, open) # NoOutcome
      THEN [exc |-> _ensure_connected(s, open), command |-> <<>>, timeout |-> 0]
    ELSE IF curve \notin Curve
      THEN [exc |-> Raised("ValueError", "Invalid curve value", <<curve>>),
            command |-> <<>>, timeout |-> 0]
    ELSE
      LET e == Encoded[<<dx, dy, duration_ms, curve>>]
      IN  IF e.err # ""
            THEN [exc |-> Raised("ValueError", e.err, <<>>),
                  command |-> <<>>, timeout |-> 0]
          ELSE [exc |-> NoOutcome, command |-> e.packet,
                timeout |-> duration_ms + buf]

(* ------------------------------------------------------------------ *)
(* Faulty variants of lines 128-144, used to test the properties below  *)
(* ------------------------------------------------------------------ *)
\* a checksum NAK is raised at once, never resent
move_decide_no_retry(response, att, timeout) ==
    IF Len(response) = 0
      THEN [next |-> "raise",
            exc |-> Raised("TimeoutError", "Arduino did not respond within",
                           <<timeout>>)]
    ELSE IF decode_response(response).success
      THEN [next |-> "return", exc |-> Returned]
    ELSE [next |-> "raise",
          exc |-> Raised("ProtocolError",
                         response_code_to_string(response[1]).text,
                         response_code_to_string(response[1]).detail)]

\* a checksum NAK is resent without looking at the attempts left
move_decide_unbounded(response, att, timeout) ==
    IF Len(response) = 0
      THEN [next |-> "raise",
            exc |-> Raised("TimeoutError", "Arduino did not respond within",
                           <<timeout>>)]
    ELSE IF decode_response(response).success
      THEN [next |-> "return", exc |-> Returned]
    ELSE IF response[1] = NAK_CHECKSUM
      THEN [next |-> "continue", exc |-> NoOutcome]
    ELSE [next |-> "raise",
          exc |-> Raised("ProtocolError",
                         response_code_to_string(response[1]).text,
                         response_code_to_string(response[1]).detail)]

\* every failure response is resent while attempts remain
move_decide_retry_any(response, att, timeout) ==
    IF Len(response) = 0
      THEN [next |-> "raise",
            exc |-> Raised("TimeoutError", "Arduino did not respond within",
                           <<timeout>>)]
    ELSE IF decode_response(response).success
      THEN [next |-> "return", exc |-> Returned]
    ELSE IF att < MAX_RETRIES
      THEN [next |-> "continue", exc |-> NoOutcome]
    ELSE [next |-> "raise",
          exc |-> Raised("ProtocolError",
                         response_code_to_string(response[1]).text,
                         response_code_to_string(response[1]).detail)]

\* a read that timed out is resent while attempts remain
move_decide_retry_timeout(response, att, timeout) ==
    IF Len(response) = 0
      THEN IF att < MAX_RETRIES
             THEN [next |-> "continue", exc |-> NoOutcome]
           ELSE [next |-> "raise",
                 exc |-> Raised("TimeoutError",
                                "Arduino did not respond within", <<timeout>>)]
    ELSE IF decode_response(response).success
      THEN [next |-> "return", exc |-> Returned]
    ELSE IF response[1] = NAK_CHECKSUM /\ att < MAX_RETRIES
      THEN [next |-> "continue", exc |-> NoOutcome]
    ELSE [next |-> "raise",
          exc |-> Raised("ProtocolError",
                         response_code_to_string(response[1]).text,
                         response_code_to_string(response[1]).detail)]

(* ------------------------------------------------------------------ *)
(* client.py: move(), lines 128-144: what the loop does with the bytes  *)
(* read(1) returned. next is "return", "continue" or "raise".           *)
(* ------------------------------------------------------------------ *)
move_decide(response, att, timeout) ==
    IF Len(response) = 0
      THEN [next |-> "raise",
            exc |-> Raised("TimeoutError", "Arduino did not respond within",
                           <<timeout>>)]
    ELSE
      LET d == decode_response(response)
      IN  IF d.err # ""
            THEN [next |-> "raise",
                  exc |-> Raised("ProtocolError", d.err, <<d.code>>)]
          ELSE IF d.success
            THEN [next |-> "return", exc |-> Returned]
          ELSE IF d.code = NAK_CHECKSUM /\ att < MAX_RETRIES
            THEN [next |-> "continue", exc |-> NoOutcome]
          ELSE [next |-> "raise",
                exc |-> Raised("ProtocolError",
                               response_code_to_string(d.code).text,
                               response_code_to_string(d.code).detail)]

\* faulty variant: the loop runs range(self.MAX_RETRIES)
loop_has_short(att) == att < MAX_RETRIES

\* faulty variant: attempts used up by a failed call are not given back
loop_has_spent(att) ==
    att + (IF sessionLast \in {"TimeoutError", "ProtocolError"} THEN 1 ELSE 0)
      < MAX_RETRIES + 1

\* line 116: range(self.MAX_RETRIES + 1) still yields a value for att
loop_has(att) == att < MAX_RETRIES + 1

(* ------------------------------------------------------------------ *)
(* The port object: what an I/O call on it raises                       *)
(* ------------------------------------------------------------------ *)
\* calling a method on self._serial: AttributeError on None, the port's
\* own error when it is closed or the link is gone, else NoOutcome
port_fault(s, open, up) ==
    IF s = "None"
      THEN Raised("AttributeError", "NoneType has no such attribute", <<>>)
    ELSE IF ~open
      THEN Raised("SerialException", "Port not open", <<>>)
    ELSE IF ~up
      THEN Raised("SerialException", "I/O failed", <<>>)
    ELSE NoOutcome

IoEntry(op, data, fresh) == [op |-> op, data |-> data, fresh |-> fresh]

AllIdle == \A c \in Callers : pc[c] = "idle"

\* move() ends for caller c: it returned or raised
EndCall(c, out) ==
    /\ pc' = [pc EXCEPT ![c] = "idle"]
    /\ outcome' = [outcome EXCEPT ![c] = out]
    /\ sessionLast' = out.kind

\* the locals of move() while no call of caller c is running
NoLocals(c) ==
    /\ command' = [command EXCEPT ![c] = <<>>]
    /\ timeout_ms' = [timeout_ms EXCEPT ![c] = 0]
    /\ attempt' = [attempt EXCEPT ![c] = 0]
    /\ deadline' = [deadline EXCEPT ![c] = 0]
    /\ waited' = [waited EXCEPT ![c] = 0]

(* ------------------------------------------------------------------ *)
(* move(): one action per step of the call                              *)
(* ------------------------------------------------------------------ *)
locals == <<command, timeout_ms, attempt, deadline, waited>>

\* move() returns or raises: the call is over and its locals are gone
Finish(c, out) == EndCall(c, out) /\ NoLocals(c)

\* faulty variant of Goto: after the write the frame is written again
\* instead of waiting for its response
Goto_write_again(c, p) ==
    /\ pc' = [pc EXCEPT ![c] = IF p = "read" THEN "write" ELSE p]
    /\ UNCHANGED <<outcome, sessionLast>>

\* faulty variant of Goto: the input is discarded once, before the loop,
\* so that a new attempt starts at the write
Goto_reset_outside_loop(c, p) ==
    /\ pc' = [pc EXCEPT ![c] = IF p = "reset" THEN "write" ELSE p]
    /\ UNCHANGED <<outcome, sessionLast>>

\* move() goes on to the step at position p
Goto(c, p) ==
    /\ pc' = [pc EXCEPT ![c] = p]
    /\ UNCHANGED <<outcome, sessionLast>>

\* lines 100-116: caller c enters move(); it raises from the checks or
\* enters the loop with attempt = 0
MoveEnter(c, a) ==
    /\ pc[c] = "idle"
    /\ constructed /\ ~deleted
    /\ Len(pending) + Len(inBuf) + MAX_RETRIES + 1 <= MaxInFlight
    /\ LET r == move_prepare(_serial, is_open, timeout_buffer_ms,
                             a[1], a[2], a[3], a[4])
       IN  /\ args' = [args EXCEPT ![c] = a]
           /\ ioLog' = [ioLog EXCEPT ![c] = <<>>]
           /\ prev' = [prev EXCEPT ![c] = sessionLast]
           /\ closedAtCall' = [closedAtCall EXCEPT ![c] = (closeCalls > 0)]
           /\ IF r.exc # NoOutcome
                THEN Finish(c, r.exc)
              ELSE IF ~loop_has(0)
                THEN Finish(c, Returned)
              ELSE /\ command' = [command EXCEPT ![c] = r.command]
                   /\ timeout_ms' = [timeout_ms EXCEPT ![c] = r.timeout]
                   /\ attempt' = [attempt EXCEPT ![c] = 0]
                   /\ pc' = [pc EXCEPT ![c] = "reset"]
                   /\ outcome' = [outcome EXCEPT ![c] = NoOutcome]
                   /\ UNCHANGED <<sessionLast, deadline, waited>>
    /\ UNCHANGED <<sessionVars, linkVars, lifeVars, closeVars, codec>>

\* a call that follows the calling convention: no second call while one
\* is in progress
MoveCall(c, a) == AllIdle /\ MoveEnter(c, a)

\* line 118: self._serial.reset_input_buffer()
ResetInput(c) ==
    /\ pc[c] = "reset"
    /\ LET f == port_fault(_serial, is_open, linkUp)
       IN  IF f # NoOutcome
             THEN /\ Finish(c, f)
                  /\ UNCHANGED <<inBuf, ioLog>>
           ELSE /\ inBuf' = <<>>
                /\ ioLog' = [ioLog EXCEPT ![c] =
                               Append(@, IoEntry("reset", <<>>, TRUE))]
                /\ Goto(c, "write")
                /\ UNCHANGED locals
    /\ UNCHANGED <<sessionVars, linkUp, pending, args, prev, closedAtCall,
                   lifeVars,
                   closeVars, codec>>

\* lines 121-122: self._serial.write(command); self._serial.flush()
\* The actuator now owes a reply to this frame; anything it still owed,
\* and any byte already buffered, answers an earlier frame.
WriteFrame(c) ==
    /\ pc[c] = "write"
    /\ LET f == port_fault(_serial, is_open, linkUp)
       IN  IF f # NoOutcome
             THEN /\ Finish(c, f)
                  /\ UNCHANGED <<inBuf, pending, ioLog>>
           ELSE /\ pending' = Append([i \in DOMAIN pending |-> FALSE], TRUE)
                /\ inBuf' = [i \in DOMAIN inBuf |->
                               [inBuf[i] EXCEPT !.fresh = FALSE]]
                /\ ioLog' = [ioLog EXCEPT ![c] =
                               Append(@, IoEntry("write", command[c], TRUE))]
                /\ Goto(c, "read")
                /\ UNCHANGED locals
    /\ UNCHANGED <<sessionVars, linkUp, args, prev, closedAtCall,
                   lifeVars, closeVars, codec>>

\* line 125: self._serial.timeout = timeout_seconds
SetTimeout(c) ==
    /\ pc[c] = "read"
    /\ LET f == port_fault(_serial, TRUE, TRUE)
       IN  IF f # NoOutcome
             THEN /\ Finish(c, f)
                  /\ UNCHANGED serial_timeout
           ELSE /\ serial_timeout' = timeout_ms[c]
                /\ Goto(c, "block")
                /\ UNCHANGED locals
    /\ UNCHANGED <<_serial, is_open, timeout_buffer_ms, linkVars, args,
                   ioLog, prev, closedAtCall,
                   lifeVars, closeVars, codec>>

\* line 126: read(1) starts and blocks with the timeout the port has now
StartRead(c) ==
    /\ pc[c] = "block"
    /\ deadline' = [deadline EXCEPT ![c] = serial_timeout]
    /\ waited' = [waited EXCEPT ![c] = 0]
    /\ Goto(c, "wait")
    /\ UNCHANGED <<command, timeout_ms, attempt>>
    /\ UNCHANGED <<sessionVars, linkVars, args, ioLog, prev, closedAtCall,
                   lifeVars, closeVars, codec>>

\* lines 128-144 applied to the bytes read(1) returned
AfterRead(c, response, fresh) ==
    LET d == move_decide(response, attempt[c], timeout_ms[c])
    IN  /\ ioLog' = [ioLog EXCEPT ![c] =
                       Append(@, IoEntry("read", response, fresh))]
        /\ IF d.next = "continue"
             THEN IF loop_has(attempt[c] + 1)
                    THEN /\ attempt' = [attempt EXCEPT ![c] = @ + 1]
                         /\ Goto(c, "reset")
                         /\ UNCHANGED <<command, timeout_ms, deadline, waited>>
                  ELSE Finish(c, Returned)
           ELSE Finish(c, d.exc)

\* line 126 returns one byte: the oldest byte of the input buffer
ReadByte(c) ==
    /\ pc[c] = "wait"
    /\ port_fault(_serial, is_open, TRUE) = NoOutcome
    /\ inBuf # <<>>
    /\ inBuf' = Tail(inBuf)
    /\ AfterRead(c, <<Head(inBuf).code>>, Head(inBuf).fresh)
    /\ UNCHANGED <<sessionVars, linkUp, pending, args, prev, closedAtCall,
                   lifeVars,
                   closeVars, codec>>

\* faulty variant of ReadTimeout: the port has no read timeout
\* (timeout=None), so that read(1) never returns b''
ReadTimeout_blocking(c) ==
    /\ pc[c] = "wait"
    /\ FALSE
    /\ UNCHANGED vars

\* line 126 returns b'': no byte came before the read's timeout ran out
ReadTimeout(c) ==
    /\ pc[c] = "wait"
    /\ port_fault(_serial, is_open, linkUp) = NoOutcome
    /\ inBuf = <<>>
    /\ waited[c] >= deadline[c]
    /\ AfterRead(c, <<>>, TRUE)
    /\ UNCHANGED <<sessionVars, linkVars, args, prev, closedAtCall,
                   lifeVars, closeVars, codec>>

\* line 126 raises: the port was closed or the link went away
ReadFault(c) ==
    /\ pc[c] = "wait"
    /\ port_fault(_serial, is_open, linkUp) # NoOutcome
    /\ Finish(c, port_fault(_serial, is_open, linkUp))
    /\ UNCHANGED <<sessionVars, linkVars, args, ioLog, prev, closedAtCall,
                   lifeVars,
                   closeVars, codec>>

\* one millisecond passes while a read is blocked on an empty buffer
Tick ==
    /\ \E c \in Callers : pc[c] = "wait"
    /\ inBuf = <<>>
    /\ linkUp
    /\ \A c \in Callers : pc[c] = "wait" => waited[c] < deadline[c]
    /\ waited' = [c \in Callers |->
                    IF pc[c] = "wait" THEN waited[c] + 1 ELSE waited[c]]
    /\ UNCHANGED <<sessionVars, linkVars, pc, args, command, timeout_ms,
                   attempt, deadline, outcome, ioLog, prev, closedAtCall, sessionLast,
                   lifeVars, closeVars, codec>>

(* ------------------------------------------------------------------ *)
(* client.py: close(), __exit__, __del__                                *)
(* ------------------------------------------------------------------ *)
\* faulty variant of close(): the port is closed whenever there is a port
\* object, and the reference is kept
close_no_clear(s, open) ==
    IF s # "None"
      THEN [_serial |-> s, is_open |-> FALSE, closes |-> 1, raised |-> FALSE]
    ELSE [_serial |-> s, is_open |-> open, closes |-> 0, raised |-> FALSE]

\* faulty variant of close(): the reference is dropped, the port not closed
close_forget(s, open) ==
    [_serial |-> "None", is_open |-> open, closes |-> 0, raised |-> FALSE]

\* lines 148-150: [_serial, is_open, closes, raised]; closes counts the
\* calls made to the port object's close()
close(s, open) ==
    IF s # "None" /\ open
      THEN [_serial |-> "None", is_open |-> FALSE, closes |-> 1,
            raised |-> FALSE]
    ELSE [_serial |-> s, is_open |-> open, closes |-> 0, raised |-> FALSE]

\* one invocation of close(), from any of its entry points. Closing the
\* port discards its input buffer, and a reply sent to a closed port is
\* lost.
DoClose ==
    /\ closeCalls < MaxCloseCalls
    /\ LET r == close(_serial, is_open)
       IN  /\ _serial' = r._serial
           /\ is_open' = r.is_open
           /\ portCloses' = portCloses + r.closes
           /\ closeErr' = (closeErr \/ r.raised)
           /\ IF r.closes > 0
                THEN inBuf' = <<>> /\ pending' = <<>>
              ELSE UNCHANGED <<inBuf, pending>>
    /\ closeCalls' = closeCalls + 1
    /\ UNCHANGED <<timeout_buffer_ms, serial_timeout, linkUp, callVars, codec>>

\* the caller invokes close() between calls
Close ==
    /\ constructed /\ ~deleted
    /\ AllIdle
    /\ DoClose
    /\ UNCHANGED lifeVars

\* lines 156-158: the with-block is left, normally or on an exception a
\* move() inside it raised
Exit ==
    /\ usage = "with" /\ scope = "in"
    /\ AllIdle
    /\ DoClose
    /\ scope' = "left"
    /\ UNCHANGED <<constructed, usage, deleted>>

\* lines 160-162: the session object is collected, once nothing uses it
Del ==
    /\ ~deleted
    /\ scope # "in"
    /\ AllIdle
    /\ DoClose
    /\ deleted' = TRUE
    /\ UNCHANGED <<constructed, usage, scope>>

(* ------------------------------------------------------------------ *)
(* The actuator and the link                                            *)
(* ------------------------------------------------------------------ *)
\* the actuator answers the oldest frame it still owes a reply to
Reply(b) ==
    /\ pending # <<>>
    /\ linkUp /\ is_open
    /\ inBuf' = Append(inBuf, [code |-> b, fresh |-> Head(pending)])
    /\ pending' = Tail(pending)
    /\ UNCHANGED <<sessionVars, linkUp, callVars, lifeVars, closeVars, codec>>

\* the actuator never answers the oldest frame (lost, or it stays silent)
Ignore ==
    /\ pending # <<>>
    /\ pending' = Tail(pending)
    /\ UNCHANGED <<sessionVars, linkUp, inBuf, callVars, lifeVars, closeVars, codec>>

\* the serial connection is lost (cable pulled, device reset): replies
\* not yet received are lost with it
LinkLost ==
    /\ linkUp /\ is_open
    /\ linkUp' = FALSE
    /\ pending' = <<>>
    /\ UNCHANGED <<sessionVars, inBuf, callVars, lifeVars, closeVars, codec>>

Next ==
    \/ \E c \in SingleCaller, a \in MoveArgs : MoveCall(c, a)
    \/ \E c \in Callers : ResetInput(c)
    \/ \E c \in Callers : WriteFrame(c)
    \/ \E c \in Callers : SetTimeout(c)
    \/ \E c \in Callers : StartRead(c)
    \/ \E c \in Callers : ReadByte(c)
    \/ \E c \in Callers : ReadTimeout(c)
    \/ \E c \in Callers : ReadFault(c)
    \/ Tick
    \/ Close
    \/ Exit
    \/ Del
    \/ \E b \in ResponseBytes : Reply(b)
    \/ Ignore
    \/ LinkLost

Spec == Init /\ [][Next]_vars

\* The thread inside move() keeps running: each statement it has reached
\* is executed, a blocked read returns once a byte is buffered, the port
\* has failed or its timeout has run out, and time passes while the read
\* is blocked. Nothing is assumed of the actuator or of the caller.
MoveProgress(c) ==
    /\ WF_vars(ResetInput(c))
    /\ WF_vars(WriteFrame(c))
    /\ WF_vars(SetTimeout(c))
    /\ WF_vars(StartRead(c))
    /\ WF_vars(ReadByte(c))
    /\ WF_vars(ReadTimeout(c))
    /\ WF_vars(ReadFault(c))

SpecLive ==
    /\ Init /\ [][Next]_vars
    /\ \A c \in SingleCaller : MoveProgress(c)
    /\ WF_vars(Tick)

(* ------------------------------------------------------------------ *)
(* protocol.py called directly: the functions are module-level and are  *)
(* exported by __init__.py, so a program may call them with any input.  *)
(* ------------------------------------------------------------------ *)
\* arguments passed to encode_move_command: inside each range, at both
\* ends of it, one step outside it, and values whose two bytes differ
EncodeDx == {-32769, -32768, -256, -1, 0, 200, 255, 256, 32767, 32768}
EncodeDy == {-32769, -32768, -2, 0, 513, 32767, 32768}
EncodeDuration == {-1, 0, 1, 255, 256, 65535, 65536}
EncodeCurve == {-1, LINEAR, EASE_IN, EASE_OUT, EASE_IN_OUT, 4}
EncodeInputs == EncodeDx \X EncodeDy \X EncodeDuration \X EncodeCurve

\* byte strings passed to decode_response: empty, every single byte, and
\* longer ones
DecodeInputs ==
    {<<>>} \cup {<<b>> : b \in 0..255}
           \cup {<<b1, b2>> : b1 \in ResponseBytes, b2 \in ResponseBytes}
           \cup {<<ACK_OK, ACK_OK, ACK_OK>>}

CodecCall(fn, input) == [NoCodecCall EXCEPT !.fn = fn, !.input = input]

\* a program about to call one of the two functions with some input
CodecInit ==
    /\ SessionInit
    /\ \/ \E a \in EncodeInputs : codec = CodecCall("encode", a)
       \/ \E r \in DecodeInputs : codec = CodecCall("decode", r)

\* encode_move_command(dx, dy, duration_ms, curve) returns or raises
EncodeCall ==
    /\ codec.fn = "encode" /\ ~codec.done
    /\ LET a == codec.input
           r == encode_move_command(a[1], a[2], a[3], a[4])
       IN  codec' = [codec EXCEPT !.done = TRUE, !.err = r.err,
                                  !.packet = r.packet]
    /\ UNCHANGED <<sessionVars, linkVars, callVars, lifeVars, closeVars>>

\* decode_response(response) returns or raises; the code it returns is
\* put into words with response_code_to_string, as move() does
DecodeCall ==
    /\ codec.fn = "decode" /\ ~codec.done
    /\ LET d == decode_response(codec.input)
       IN  IF d.err # ""
             THEN codec' = [codec EXCEPT !.done = TRUE, !.err = d.err]
           ELSE codec' = [codec EXCEPT
                            !.done = TRUE, !.success = d.success,
                            !.code = d.code,
                            !.text = response_code_to_string(d.code).text,
                            !.detail = response_code_to_string(d.code).detail]
    /\ UNCHANGED <<sessionVars, linkVars, callVars, lifeVars, closeVars>>

CodecNext == EncodeCall \/ DecodeCall

SpecCodec == CodecInit /\ [][CodecNext]_vars

(* ------------------------------------------------------------------ *)
(* Two threads sharing one session. move() takes no lock, so a thread   *)
(* may enter it while the other is inside; the threads interleave       *)
(* between the statements of move().                                    *)
(* ------------------------------------------------------------------ *)
\* the session the threads share was opened; it is used without a
\* with-block
ConcurrentInit == Init /\ constructed /\ usage = "plain"

\* arguments the threads pass: one valid tuple, one out of range
ConcurrentArgs == {<<200, 0, 2, LINEAR>>, <<0, 0, 0, EASE_IN>>}

\* bytes the actuator answers with while both threads are at work
ConcurrentReplies == {ACK_OK, NAK_CHECKSUM}

\* a thread calls move(), once, whatever the other thread is doing
ConcurrentMoveCall(c, a) ==
    /\ outcome[c] = NoOutcome
    /\ MoveEnter(c, a)

ConcurrentNext ==
    \/ \E c \in Callers, a \in ConcurrentArgs : ConcurrentMoveCall(c, a)
    \/ \E c \in Callers : ResetInput(c)
    \/ \E c \in Callers : WriteFrame(c)
    \/ \E c \in Callers : SetTimeout(c)
    \/ \E c \in Callers : StartRead(c)
    \/ \E c \in Callers : ReadByte(c)
    \/ \E c \in Callers : ReadTimeout(c)
    \/ Tick
    \/ \E b \in ConcurrentReplies : Reply(b)
    \/ Ignore

SpecConcurrent == ConcurrentInit /\ [][ConcurrentNext]_vars

(* ------------------------------------------------------------------ *)
(* Reading a call's record                                              *)
(* ------------------------------------------------------------------ *)
IsWrite(e) == e.op = "write"
IsRead(e) == e.op = "read"

\* the frames caller c's current/last move() wrote, in order
Writes(c) == SelectSeq(ioLog[c], IsWrite)
\* what its reads returned, in order: <<b>> for a byte, <<>> for none
Reads(c) == [i \in DOMAIN SelectSeq(ioLog[c], IsRead) |->
               SelectSeq(ioLog[c], IsRead)[i].data]

\* caller c's move() has ended (returned or raised)
Done(c) == pc[c] = "idle" /\ outcome[c] # NoOutcome
\* it was ended by the transport failing under it, not by move()'s logic
LinkFault(c) == outcome[c].kind \in {"SerialException", "AttributeError"}

\* the argument ranges of section 4.2
ArgsValid(a) ==
    /\ -32768 <= a[1] /\ a[1] <= 32767
    /\ -32768 <= a[2] /\ a[2] <= 32767
    /\ 1 <= a[3] /\ a[3] <= 65535
    /\ a[4] \in 0..3

(* ------------------------------------------------------------------ *)
(* C1. With MAX_RETRIES = 1: a move() whose first attempt reads 0x01    *)
(* (NakChecksum) and whose second reads 0x00 (Ok) has written the frame *)
(* exactly twice, both times the same 10 bytes, and returned success;   *)
(* and a first-attempt 0x01 never ends the call by itself - only the    *)
(* transport failing before the resend can.                             *)
(* ------------------------------------------------------------------ *)
C1_NakThenOkTwoWritesSuccess ==
    \A c \in Callers :
      /\ (Done(c) /\ Reads(c) = << <<NAK_CHECKSUM>>, <<ACK_OK>> >>) =>
            /\ Len(Writes(c)) = 2
            /\ Writes(c)[1].data = Writes(c)[2].data
            /\ Len(Writes(c)[1].data) = PACKET_SIZE
            /\ outcome[c] = Returned
      /\ (Done(c) /\ Reads(c) = << <<NAK_CHECKSUM>> >>) => LinkFault(c)

C1_Witness ==
    \E c \in Callers :
      /\ Done(c)
      /\ Reads(c) = << <<NAK_CHECKSUM>>, <<ACK_OK>> >>
      /\ Len(Writes(c)) = 2
      /\ outcome[c] = Returned

(* ------------------------------------------------------------------ *)
(* C2. One move() writes the frame at most MAX_RETRIES + 1 times; when  *)
(* every attempt read 0x01 (NakChecksum) and the call ended on its own  *)
(* decision, it wrote exactly MAX_RETRIES + 1 times and raised          *)
(* ProtocolError with the checksum-error reason.                        *)
(* ------------------------------------------------------------------ *)
C2_AtMostRetriesPlusOneWrites ==
    \A c \in Callers :
      /\ Len(Writes(c)) <= MAX_RETRIES + 1
      /\ ( /\ Done(c) /\ ~LinkFault(c)
           /\ Reads(c) # <<>>
           /\ \A i \in DOMAIN Reads(c) : Reads(c)[i] = <<NAK_CHECKSUM>> ) =>
            /\ Len(Writes(c)) = MAX_RETRIES + 1
            /\ outcome[c] = Raised("ProtocolError", "Checksum error", <<>>)

C2_Witness ==
    \E c \in Callers :
      /\ Done(c)
      /\ Len(Writes(c)) = MAX_RETRIES + 1
      /\ \A i \in DOMAIN Reads(c) : Reads(c)[i] = <<NAK_CHECKSUM>>
      /\ outcome[c].kind = "ProtocolError"

(* ------------------------------------------------------------------ *)
(* C3. Whenever an attempt of a move() reads a byte other than 0x00 and *)
(* 0x01, that read is the call's last transport operation and the call  *)
(* has raised ProtocolError; on the first attempt that is 1 write.      *)
(* ------------------------------------------------------------------ *)
C3_OnlyChecksumNakResends ==
    \A c \in Callers : \A i \in DOMAIN ioLog[c] :
      ( /\ ioLog[c][i].op = "read"
        /\ Len(ioLog[c][i].data) = 1
        /\ ioLog[c][i].data[1] \notin {ACK_OK, NAK_CHECKSUM} ) =>
          /\ i = Len(ioLog[c])
          /\ Done(c)
          /\ outcome[c].kind = "ProtocolError"
          /\ (i = 3 => Len(Writes(c)) = 1)

C3_Witness ==
    \E c \in Callers :
      /\ Done(c)
      /\ Reads(c) = << <<NAK_INVALID>> >>
      /\ Len(Writes(c)) = 1
      /\ outcome[c] = Raised("ProtocolError", "Invalid command", <<>>)

(* ------------------------------------------------------------------ *)
(* C4. Whenever a read of a move() returns no byte within its deadline, *)
(* in the first attempt or in a retry, that read is the call's last     *)
(* transport operation and the call has raised TimeoutError.            *)
(* ------------------------------------------------------------------ *)
C4_TimeoutIsTerminal ==
    \A c \in Callers : \A i \in DOMAIN ioLog[c] :
      (ioLog[c][i].op = "read" /\ ioLog[c][i].data = <<>>) =>
          /\ i = Len(ioLog[c])
          /\ Done(c)
          /\ outcome[c].kind = "TimeoutError"

C4_Witness ==
    \E c \in Callers :
      /\ Done(c)
      /\ Reads(c) = << <<NAK_CHECKSUM>>, <<>> >>
      /\ Len(Writes(c)) = 2
      /\ outcome[c].kind = "TimeoutError"

(* ------------------------------------------------------------------ *)
(* The error taxonomy of section 7: the kind of a call's result. An     *)
(* error the port raises when the link is gone is a connectivity        *)
(* failure, whatever its exception class.                               *)
(* ------------------------------------------------------------------ *)
ResultKind(out) ==
    IF out.kind = "ok" THEN "success"
    ELSE IF out.kind = "ValueError" THEN "validation"
    ELSE IF out.kind \in {"ConnectionError", "SerialException"}
      THEN "connectivity"
    ELSE IF out.kind = "TimeoutError" THEN "timeout"
    ELSE IF out.kind = "ProtocolError" THEN "protocol"
    ELSE "other"

\* the bytes caller c's move() has read, in order (timeouts left out)
BytesRead(c) == SelectSeq(Reads(c), LAMBDA r : Len(r) = 1)

\* caller c has made a move() call
Called(c) == pc[c] # "idle" \/ outcome[c] # NoOutcome

C6_ClosedSessionRejectsMove ==
    \A c \in Callers :
      closedAtCall[c] =>
        /\ pc[c] = "idle"
        /\ outcome[c].kind = "ConnectionError"
        /\ ioLog[c] = <<>>

C6_Witness ==
    \E c \in Callers :
      /\ closedAtCall[c]
      /\ scope = "left"
      /\ ~ArgsValid(args[c])
      /\ outcome[c].kind = "ConnectionError"

(* ------------------------------------------------------------------ *)
(* C7. A move() called on an open session with dx, dy, duration_ms or   *)
(* curve out of range raises ValueError before any transport operation: *)
(* nothing is reset, written or read, and the transport stays open.     *)
(* ------------------------------------------------------------------ *)
C7_ValidationHasNoSideEffect ==
    \A c \in Callers :
      (Called(c) /\ ~closedAtCall[c] /\ ~ArgsValid(args[c])) =>
        /\ Done(c)
        /\ outcome[c].kind = "ValueError"
        /\ ioLog[c] = <<>>
        /\ closeCalls = 0 => (_serial = "Serial" /\ is_open)

C7_Witness ==
    \E c \in Callers :
      /\ Done(c)
      /\ ~closedAtCall[c]
      /\ args[c][3] = 0
      /\ outcome[c] = Raised("ValueError", "duration_ms must be in range", <<>>)
      /\ is_open

(* ------------------------------------------------------------------ *)
(* C8. After a move() that ended in a validation, timeout or protocol   *)
(* error the transport is still open (until the caller closes it), and  *)
(* the next move() with valid arguments is a fresh exchange: it enters  *)
(* the loop, returns success when its first read is 0x00, and has the   *)
(* full budget - a first-attempt 0x01 is resent, and 0x01 then 0x00     *)
(* returns success after two writes.                                    *)
(* ------------------------------------------------------------------ *)
RecoverableKinds == {"ValueError", "TimeoutError", "ProtocolError"}

C8_SessionUsableAfterError ==
    /\ (sessionLast \in RecoverableKinds /\ closeCalls = 0) =>
          (_serial = "Serial" /\ is_open)
    /\ \A c \in Callers :
         ( /\ prev[c] \in RecoverableKinds
           /\ ~closedAtCall[c]
           /\ ArgsValid(args[c]) ) =>
            /\ outcome[c].kind \notin {"ConnectionError", "ValueError"}
            /\ (Done(c) /\ Reads(c) = << <<ACK_OK>> >>) =>
                  (outcome[c] = Returned /\ Len(Writes(c)) = 1)
            /\ (Done(c) /\ Reads(c) = << <<NAK_CHECKSUM>> >>) => LinkFault(c)
            /\ (Done(c) /\ Reads(c) = << <<NAK_CHECKSUM>>, <<ACK_OK>> >>) =>
                  (outcome[c] = Returned /\ Len(Writes(c)) = MAX_RETRIES + 1)

C8_Witness ==
    \E c \in Callers :
      /\ prev[c] = "TimeoutError"
      /\ Done(c)
      /\ Reads(c) = << <<NAK_CHECKSUM>>, <<ACK_OK>> >>
      /\ outcome[c] = Returned

(* ------------------------------------------------------------------ *)
(* C9. Over any sequence of close(), __exit__ and __del__ calls the     *)
(* port object's close() is invoked at most once, no call raises, and   *)
(* once close() has been called a further call changes nothing.         *)
(* ------------------------------------------------------------------ *)
C9_CloseIdempotent ==
    /\ portCloses <= 1
    /\ ~closeErr
    /\ closeCalls >= 1 =>
         close(_serial, is_open) =
           [_serial |-> _serial, is_open |-> is_open, closes |-> 0,
            raised |-> FALSE]

C9_Witness ==
    /\ closeCalls >= 2
    /\ portCloses = 1
    /\ deleted

(* ------------------------------------------------------------------ *)
(* C10. Once the with-block has been left the transport is closed,      *)
(* whether the block ended normally or on an error raised by move();    *)
(* and a session whose construction failed holds no open transport.     *)
(* ------------------------------------------------------------------ *)
C10_TransportReleased ==
    /\ scope = "left" => (~is_open /\ _serial = "None")
    /\ ~constructed => (~is_open /\ _serial = "None")

C10_Witness ==
    /\ scope = "left"
    /\ sessionLast = "TimeoutError"
    /\ portCloses = 1
    /\ ~is_open

(* ------------------------------------------------------------------ *)
(* Properties of the packet codec                                       *)
(* ------------------------------------------------------------------ *)
\* bit k of a byte, and the two readings of a little-endian byte pair
BitOf(v, k) == (v \div (2 ^ k)) % 2
ReadU16(lo, hi) == lo + 256 * hi
ReadS16(lo, hi) ==
    IF ReadU16(lo, hi) >= 32768 THEN ReadU16(lo, hi) - 65536
    ELSE ReadU16(lo, hi)

\* the XOR of bytes 0..8 of a frame p, bit by bit: a bit of the XOR is
\* set when an odd number of the bytes have it set
XorOfFirstNine(p) ==
    LET ones(k) == BitOf(p[1], k) + BitOf(p[2], k) + BitOf(p[3], k)
                   + BitOf(p[4], k) + BitOf(p[5], k) + BitOf(p[6], k)
                   + BitOf(p[7], k) + BitOf(p[8], k) + BitOf(p[9], k)
        bit(k) == ones(k) % 2
    IN  bit(0) + 2 * bit(1) + 4 * bit(2) + 8 * bit(3) + 16 * bit(4)
        + 32 * bit(5) + 64 * bit(6) + 128 * bit(7)

\* the direct call of protocol.py function k has returned or raised
CodecDone(k) == codec.fn = k /\ codec.done

\* C11: for valid arguments encode_move_command returns exactly 10 bytes
\* [0xAA, 0x01, dx lo, dx hi, dy lo, dy hi, duration lo, duration hi,
\* curve, checksum]; reading bytes 2..8 back (dx, dy as signed and
\* duration as unsigned little-endian 16-bit values) gives the arguments,
\* and byte 9 is the XOR of bytes 0..8.
C11_FrameLayoutRoundTrip ==
    (CodecDone("encode") /\ ArgsValid(codec.input)) =>
      LET p == codec.packet
          a == codec.input
      IN  /\ codec.err = ""
          /\ Len(p) = 10
          /\ \A i \in 1..10 : p[i] \in 0..255
          /\ p[1] = 170 /\ p[2] = 1
          /\ ReadS16(p[3], p[4]) = a[1]
          /\ ReadS16(p[5], p[6]) = a[2]
          /\ ReadU16(p[7], p[8]) = a[3]
          /\ p[9] = a[4]
          /\ p[10] = XorOfFirstNine(p)

\* a frame was encoded from a negative dx whose two bytes differ and a
\* duration above 255
C11_Witness ==
    /\ CodecDone("encode") /\ codec.err = ""
    /\ codec.input = <<-256, 513, 65535, EASE_IN_OUT>>
    /\ codec.packet = <<170, 1, 0, 255, 1, 2, 255, 255, 3, 84>>

\* C12: encode_move_command accepts its arguments exactly when dx and dy
\* are in [-32768, 32767], duration_ms in [1, 65535] and curve one of
\* 0, 1, 2, 3; every other combination ends in a validation error and
\* yields no frame.
C12_AcceptsExactlyValidRanges ==
    CodecDone("encode") =>
      LET a == codec.input
          inRange == /\ a[1] >= -32768 /\ a[1] <= 32767
                     /\ a[2] >= -32768 /\ a[2] <= 32767
                     /\ a[3] >= 1 /\ a[3] <= 65535
                     /\ a[4] \in {0, 1, 2, 3}
      IN  /\ (codec.err = "") <=> inRange
          /\ inRange => Len(codec.packet) = 10
          /\ ~inRange => codec.packet = <<>>

\* dx = 32768 with everything else at an accepted boundary was rejected
C12_Witness ==
    /\ CodecDone("encode")
    /\ codec.input = <<32768, -32768, 65535, EASE_IN_OUT>>
    /\ codec.err # "" /\ codec.packet = <<>>

\* C13: decode_response maps a single byte b to (success, code) with
\* code = b and success exactly for b = 0x00; 0x01, 0x02 and 0x03 are
\* worded as three distinct failure reasons, every other byte as an
\* unknown code carrying b; an input of 0 bytes or of 2 and more bytes is
\* a length error, not a decoded outcome.
C13_DecodeTotalOnSingleBytes ==
    CodecDone("decode") =>
      LET r == codec.input
      IN  IF Len(r) = 1
            THEN /\ codec.err = ""
                 /\ codec.code = r[1]
                 /\ codec.success <=> (r[1] = 0)
                 /\ (r[1] = 1) => (codec.text = "Checksum error")
                 /\ (r[1] = 2) => (codec.text = "Invalid command")
                 /\ (r[1] = 3) =>
                      (codec.text = "Movement interrupted by new command")
                 /\ (r[1] \in {0, 1, 2, 3}) <=>
                      (codec.text # "Unknown response code")
                 /\ (r[1] \notin {0, 1, 2, 3}) => (codec.detail = <<r[1]>>)
          ELSE /\ codec.err = "Expected 1-byte response"
               /\ ~codec.success
               /\ codec.text = ""

\* the byte 0x55 was decoded as an unknown-code failure carrying 0x55
C13_Witness ==
    /\ CodecDone("decode") /\ codec.input = <<85>>
    /\ codec.err = "" /\ ~codec.success /\ codec.code = 85
    /\ codec.text = "Unknown response code" /\ codec.detail = <<85>>

(* ------------------------------------------------------------------ *)
(* Properties of the exchange on the transport                          *)
(* ------------------------------------------------------------------ *)
\* C14: a prior, abandoned exchange never leaks a byte into a later one:
\* whatever the sequence of move() calls and the timing of the replies,
\* a byte decoded by an attempt is the actuator's reply to the frame
\* written in that same attempt.
C14_DecodedByteAnswersOwnFrame ==
    \A c \in Callers : \A i \in DOMAIN ioLog[c] :
      (ioLog[c][i].op = "read" /\ ioLog[c][i].data # <<>>) =>
        ioLog[c][i].fresh

\* the operations of ioLog follow the cycle reset, write, read
InCycle(log) ==
    \A i \in DOMAIN log :
      log[i].op = (CASE i % 3 = 1 -> "reset"
                     [] i % 3 = 2 -> "write"
                     [] OTHER -> "read")

\* C15: in every attempt the transport operations occur in one fixed
\* order: discard the buffered input, write the 10-byte frame, read one
\* byte. No write happens without a discard before it in the same
\* attempt, and no read without a write before it in the same attempt.
C15_DiscardWriteReadOrder ==
    \A c \in Callers :
      /\ InCycle(ioLog[c])
      /\ \A i \in DOMAIN ioLog[c] :
           /\ ioLog[c][i].op = "write" => Len(ioLog[c][i].data) = 10
           /\ ioLog[c][i].op = "read" => Len(ioLog[c][i].data) <= 1
      /\ pc[c] = "write" => Len(ioLog[c]) % 3 = 1
      /\ pc[c] \in {"read", "block", "wait"} => Len(ioLog[c]) % 3 = 2

\* a call made two attempts: discard, write, read, discard, write, read
C15_Witness ==
    \E c \in Callers :
      /\ Done(c) /\ Len(ioLog[c]) = 6
      /\ ioLog[c][4].op = "reset" /\ ioLog[c][5].op = "write"
      /\ ioLog[c][6].op = "read"

(* ------------------------------------------------------------------ *)
(* Properties of the wait for the response                              *)
(* ------------------------------------------------------------------ *)
\* C16: the wait for the response byte has the deadline
\* duration_ms + timeout_buffer_ms. While the transport produces no byte
\* the read gives up exactly when that much time has passed, not before;
\* a byte that arrives at any moment before the deadline is accepted.
C16_WaitHasFullDeadline ==
    \A c \in Callers :
      pc[c] = "wait" =>
        /\ deadline[c] = args[c][3] + timeout_buffer_ms
        /\ serial_timeout = deadline[c]
        /\ waited[c] <= deadline[c]
        /\ (ENABLED ReadTimeout(c)) =>
             (inBuf = <<>> /\ waited[c] = args[c][3] + timeout_buffer_ms)
        /\ (inBuf = <<>> /\ linkUp /\ is_open /\ _serial # "None"
              /\ waited[c] = args[c][3] + timeout_buffer_ms) =>
             ENABLED ReadTimeout(c)
        /\ (inBuf # <<>> /\ is_open /\ _serial # "None") =>
             ENABLED ReadByte(c)

\* a read of a 2 ms movement with a 1 ms buffer has waited 3 ms on a
\* silent transport and now gives up
C16_Witness ==
    \E c \in Callers :
      /\ pc[c] = "wait" /\ args[c][3] = 2 /\ timeout_buffer_ms = 1
      /\ waited[c] = 3 /\ inBuf = <<>>
      /\ ENABLED ReadTimeout(c)

(* ------------------------------------------------------------------ *)
(* Properties of the exchanges in flight                                *)
(* ------------------------------------------------------------------ *)
\* frames caller c's running move() has written and whose response it
\* has not consumed yet (by reading a byte or by timing out)
Outstanding(c) ==
    IF pc[c] = "idle" THEN 0 ELSE Len(Writes(c)) - Len(Reads(c))

OutstandingTotal == Outstanding("t1") + Outstanding("t2")

\* callers that are inside move()
InMove == {c \in Callers : pc[c] # "idle"}

\* C17: in every reachable state the session has at most one exchange
\* outstanding, for any interleaving of move() calls on it, two callers
\* invoking move() concurrently included.
C17_AtMostOneOutstanding == OutstandingTotal <= 1

\* C17, amended: while the calls on the session respect the calling
\* convention (no caller inside move() while another one is), the session
\* has at most one exchange outstanding, the retry loop included.
C17_OneOutstandingUnderConvention ==
    Cardinality(InMove) <= 1 => OutstandingTotal <= 1

\* a call alone on the session waits for the response to its resent frame
C17_Witness ==
    \E c \in Callers :
      /\ InMove = {c} /\ pc[c] = "wait"
      /\ Len(Writes(c)) = 2 /\ Len(Reads(c)) = 1

(* ------------------------------------------------------------------ *)
(* Properties of the errors move() raises                               *)
(* ------------------------------------------------------------------ *)
\* the exception classes the docstring of move() lists under 'Raises'
DocumentedErrors ==
    {"ValueError", "ConnectionError", "TimeoutError", "ProtocolError"}

\* C18: a move() during which the serial connection is lost, at any point
\* of the call (after the initial check and between attempts included),
\* fails with ConnectionError, and the only errors move() ever raises are
\* ValueError, ConnectionError, TimeoutError and ProtocolError.
C18_LostLinkIsConnectionError ==
    \A c \in Callers :
      Done(c) =>
        /\ outcome[c].kind \in DocumentedErrors \cup {"ok"}
        /\ (~linkUp /\ Len(ioLog[c]) % 3 # 0) =>
             outcome[c].kind = "ConnectionError"

(* ------------------------------------------------------------------ *)
(* Termination                                                          *)
(* ------------------------------------------------------------------ *)
\* C19: every move() call eventually returns or raises, whatever the
\* actuator does (staying silent forever and answering every frame with
\* a checksum NAK included): each wait ends at its deadline and the
\* attempts are at most MAX_RETRIES + 1.
C19_MoveTerminates ==
    \A c \in Callers : (pc[c] # "idle") ~> (pc[c] = "idle")

\* a call whose two frames were both answered with a checksum NAK has
\* ended
C19_Witness ==
    \E c \in Callers :
      /\ Done(c) /\ outcome[c].kind = "ProtocolError"
      /\ Reads(c) = << <<NAK_CHECKSUM>>, <<NAK_CHECKSUM>> >>
====
